---------------------------- MODULE Spec2Model ----------------------------
(***************************************************************************)
(* The chat view of the investment-support client: the message submission  *)
(* pipeline (handleSendMessage), the persistence gateway (chatService) and *)
(* the backend tables it talks to, the reply gateway, the history-load     *)
(* effect and the conversation list handlers.                              *)
(*                                                                         *)
(* Representation.  A text is a sequence of one-character strings.  A      *)
(* conversation id is a positive integer, NoId stands for null.  A file is *)
(* named by its file name, NoFile stands for null.  A JavaScript object is *)
(* a record; an undefined property is either absent or holds None, and     *)
(* <<>> stands for an undefined object.                                    *)
(***************************************************************************)
EXTENDS Integers, Sequences, FiniteSets, TLC

\* ------------------------------------------------------------- bounds
\* How many runs of the pipeline may end before the user stops sending.
MaxSends == 1
\* How many requests of one kind (history loads, deletes) the user's clicks
\* may leave in flight at once.
MaxPending == 1
MaxValidations == 2

\* ---------------------------------------------------- program constants
\* title.substring(0, 30)
TitleMax == 30

None == "none"
NoId == 0
NoFile == "nofile"
NoAttachment == << >>

Rep(ch, n) == [i \in 1..n |-> ch]

\* "Nova Conversa"
Placeholder == <<"N", "o", "v", "a", " ", "C", "o", "n", "v", "e", "r", "s", "a">>
\* "Recebido, mas sem resposta de texto." (abridged to its first word)
NoTextSentinel == <<"R", "e", "c", "e", "b", "i", "d", "o">>
\* The greeting of the welcome message (abridged to its first word).
WelcomeText == <<"O", "l", "a", "!">>

\* ------------------------------------------------------------- inputs
\* What the user may type: nothing, a blank, a short text, a text of one
\* character more than a title holds.
Texts == { << >>, <<" ">>, <<"a">> }
\* What the user may attach: an image and a document.
Files == {"pic.png"}
FileType == [f \in Files |-> IF f = "pic.png" THEN "image/png"
                                              ELSE "application/pdf"]
ImageTypes == {"image/png"}
\* What a gateway call meets: a session and a willing backend, no session,
\* or a backend error.
Outcomes == {"ok", "nosession", "error"}

\* ------------------------------------------------------------ helpers
Min(a, b) == IF a < b THEN a ELSE b

Field(obj, k) == IF k \in DOMAIN obj THEN obj[k] ELSE None

RemoveAt(s, i) == SubSeq(s, 1, i - 1) \o SubSeq(s, i + 1, Len(s))

RECURSIVE TrimLeft(_)
TrimLeft(s) == IF s # << >> /\ Head(s) = " " THEN TrimLeft(Tail(s)) ELSE s

RECURSIVE TrimRight(_)
TrimRight(s) ==
    IF s # << >> /\ s[Len(s)] = " " THEN TrimRight(SubSeq(s, 1, Len(s) - 1)) ELSE s

\* String.prototype.trim
Trim(s) == TrimRight(TrimLeft(s))

\* JSON.stringify of an object: a property holding undefined is dropped.
ToJson(obj) == [k \in {j \in DOMAIN obj : obj[j] # None} |-> obj[k]]

\* type.startsWith('image/')
IsImage(f) == FileType[f] \in ImageTypes

\* URL.createObjectURL: a blob reference that lives in this browsing session.
BlobUrl(f) == "blob:" \o f
\* getPublicUrl of the stored object.
PublicUrl(f) == "https://storage/" \o f

LocalId(n) == [kind |-> "local", n |-> n]
ReplyId(n) == [kind |-> "reply", n |-> n]
ServerId(n) == [kind |-> "server", n |-> n]

Welcome ==
    [id |-> [kind |-> "welcome", n |-> 0], role |-> "assistant",
     content |-> WelcomeText, attachment |-> NoAttachment]


\* ------------------------------------------------------------- state
VARIABLES
    messages,              \* useState<ChatMessage[]>: the visible list
    inputValue,            \* useState(''): the text field
    selectedFile,          \* useState<File | null>
    isTyping,              \* useState(false): the busy flag
    conversations,         \* useState<Conversation[]>: the sidebar list
    activeConversationId,  \* useState<string | null>
    runs,                  \* the invocations of handleSendMessage in flight
    done,                  \* the invocation that ended last, with its calls
    loads,                 \* the loadMessages effects in flight
    deletes,               \* the handleDeleteConversation calls in flight
    fetch,                 \* the fetchConversations effect
    db,                    \* the backend: tables, object store, id serial
    savedLog,              \* what the successful saveMessageToDb calls supplied
    sends,                 \* how many send actions passed the guard
    last,                  \* the last direct call of a function and its result
    login,                 \* the LoginView, its sign-in and its access log
    wizard                 \* the OnboardingWizard, its form and its submit

vars == <<messages, inputValue, selectedFile, isTyping, conversations,
          activeConversationId, runs, done, loads, deletes, fetch, db,
          savedLog, sends, last, login, wizard>>

\* ------------------------------------------- persistence gateway (chatService)
\* A title that is defaulted but never cut.
cleanTitleUncut(title) ==
    IF title = << >> THEN Placeholder ELSE title

\* const cleanTitle = title.substring(0, 30) || "Nova Conversa"
cleanTitle(title) ==
    LET cut == SubSeq(title, 1, Min(Len(title), TitleMax))
    IN  IF cut = << >> THEN Placeholder ELSE cut

\* The row a conversations insert creates, with its server-generated id.
NewConversationRow(title, d) == [id |-> d.serial + 1, title |-> cleanTitle(title)]

\* createConversation: the record it returns (<<>> for null) and the backend
\* it leaves.  The conversations table is kept in updated_at order, most
\* recent first; a new row is the most recent.
createConversation(title, out, d) ==
    IF out = "nosession"
    THEN [result |-> << >>, insert |-> FALSE, db |-> d]
    ELSE IF out = "error"
    THEN [result |-> << >>, insert |-> TRUE, db |-> d]
    ELSE LET row == NewConversationRow(title, d)
         IN  [result |-> row, insert |-> TRUE,
              db |-> [d EXCEPT !.conversations = <<row>> \o @,
                               !.serial = @ + 1]]

\* getConversations: the caller's conversations, updated_at descending.
getConversations(out, d) == IF out = "ok" THEN d.conversations ELSE << >>

HasConversation(d, id) == \E i \in 1..Len(d.conversations) : d.conversations[i].id = id

WithoutConversation(cs, id) == SelectSeq(cs, LAMBDA c : c.id # id)

\* deleteConversation: no session check; the delete matches the row ("ok"),
\* matches no row ("norows") or the backend reports an error.  The message
\* rows of a deleted conversation go with it (foreign key).
deleteConversation(conversationId, out, d) ==
    IF out = "error"
    THEN [result |-> FALSE, db |-> d]
    ELSE IF out = "norows"
    THEN [result |-> TRUE, db |-> d]
    ELSE [result |-> TRUE,
          db |-> [d EXCEPT
                    !.conversations = WithoutConversation(@, conversationId),
                    !.chat_messages =
                        SelectSeq(@, LAMBDA m : m.conversation_id # conversationId)]]

\* One chat_messages row as loadChatHistory hands it to the view.
RowToMessage(msg) ==
    [id |-> msg.id, role |-> msg.role, content |-> msg.content,
     attachment |->
        IF msg.attachment_info # NoAttachment
        THEN [name |-> Field(msg.attachment_info, "name"),
              type |-> Field(msg.attachment_info, "type"),
              url |-> Field(msg.attachment_info, "url"),
              previewUrl |-> Field(msg.attachment_info, "previewUrl")]
        ELSE NoAttachment]

\* .eq('conversation_id', conversationId).order('created_at', ascending)
\* chat_messages is kept in created_at order.
RowsOf(conversationId, d) ==
    SelectSeq(d.chat_messages, LAMBDA m : m.conversation_id = conversationId)

\* A history ordered newest first.
loadChatHistoryDescending(conversationId, out, d) ==
    IF out # "ok"
    THEN << >>
    ELSE LET rows == RowsOf(conversationId, d)
         IN  [i \in 1..Len(rows) |-> RowToMessage(rows[Len(rows) + 1 - i])]

loadChatHistory(conversationId, out, d) ==
    IF out # "ok"
    THEN << >>
    ELSE LET rows == RowsOf(conversationId, d)
         IN  [i \in 1..Len(rows) |-> RowToMessage(rows[i])]

\* The conversations table after the owning conversation's updated_at is set
\* to now: the conversation becomes the most recent one.
Touch(cs, id) ==
    SelectSeq(cs, LAMBDA c : c.id = id) \o SelectSeq(cs, LAMBDA c : c.id # id)

\* The chat_messages insert as the backend performs it: rejected on a backend
\* error and when the row names a conversation that does not exist (foreign
\* key; a null reference names none and passes).
InsertAccepted(conversationId, out, d) ==
    /\ out \in {"ok", "stale"}
    /\ conversationId = NoId \/ HasConversation(d, conversationId)

\* A saveMessageToDb that does not look at the conversation id.
SaveInsertsUnchecked(conversationId, out, d) ==
    /\ out # "nosession"
    /\ InsertAccepted(conversationId, out, d)

\* Whether saveMessageToDb inserts a row: it needs a session and a non-empty
\* conversation id, and the backend must accept the insert.
SaveInserts(conversationId, out, d) ==
    /\ out # "nosession"
    /\ conversationId # NoId
    /\ InsertAccepted(conversationId, out, d)

\* What the backend may answer to saveMessageToDb: as Outcomes, and "stale"
\* when the insert is accepted and the update of updated_at is not.
SaveOutcomes == Outcomes \cup {"stale"}

\* A saveMessageToDb that sets updated_at whatever became of the insert.
BumpAlways(inserted) == TRUE

\* if (error) ... else { update updated_at }: whether the update is requested.
BumpRequested(inserted) == inserted

\* The requests saveMessageToDb sends to the backend, after getSession.
SaveRequests(conversationId, out, d) ==
    IF out = "nosession" \/ conversationId = NoId THEN << >>
    ELSE <<"insert">> \o
         (IF BumpRequested(InsertAccepted(conversationId, out, d))
          THEN <<"update">> ELSE << >>)

\* if (error) console.error(...): the failure is logged, nothing is raised.
SaveRaises(out) == FALSE

\* saveMessageToDb: the backend it leaves; it returns nothing.  After a
\* successful insert it sets the conversation's updated_at and does not look
\* at the answer; the conversations table is kept in updated_at order.
saveMessageToDb(conversationId, role, content, attachmentInfo, out, d) ==
    LET inserted == SaveInserts(conversationId, out, d)
        row == [id |-> ServerId(d.serial + 1),
                conversation_id |-> conversationId,
                role |-> role, content |-> content,
                attachment_info |->
                    IF attachmentInfo = NoAttachment THEN NoAttachment
                    ELSE ToJson(attachmentInfo)]
    IN  [d EXCEPT
            !.chat_messages = IF inserted THEN Append(@, row) ELSE @,
            !.conversations = IF BumpRequested(inserted) /\ out # "stale"
                              THEN Touch(@, conversationId) ELSE @,
            !.serial = IF inserted THEN @ + 1 ELSE @]

\* What may happen inside uploadChatAttachment: as Outcomes, and "throws"
\* when a call of the storage client itself raises.
UploadOutcomes == Outcomes \cup {"throws"}

\* Whether an exception is raised inside the try block: thrown for a missing
\* session, re-thrown for an upload error, or raised by the client.
UploadRaised(out) == out # "ok"

\* A catch block that raises what it caught again.
UploadSurfaces(raised) == raised

\* catch (error) { console.error(...); return null; }: whether the
\* exception reaches the caller.
UploadPropagates(raised) == FALSE

\* uploadChatAttachment: the public URL, or None for null, the backend it
\* leaves, and whether it raises to its caller.
uploadChatAttachment(file, out, d) ==
    IF ~UploadRaised(out)
    THEN [result |-> PublicUrl(file), throws |-> FALSE,
          db |-> [d EXCEPT !.objects = @ \cup {file}]]
    ELSE [result |-> None, throws |-> UploadPropagates(TRUE), db |-> d]

\* --------------------------------------------------------- reply gateway
\* What the reply endpoint may answer: a network failure, a non-success
\* status, a body that is no JSON, or a JSON body.
Bodies ==
    { [kind |-> "object", reply |-> <<"r">>, output |-> <<"o">>],
      [kind |-> "object", reply |-> << >>, output |-> <<"o">>],
      [kind |-> "object", reply |-> << >>, output |-> << >>],
      [kind |-> "object", reply |-> <<"r">>, output |-> << >>],
      [kind |-> "object", reply |-> <<"r">>],
      [kind |-> "object", output |-> <<"o">>],
      [kind |-> "object"],
      [kind |-> "string", value |-> <<"s">>],
      [kind |-> "string", value |-> << >>],
      [kind |-> "null"] }

AllAnswers ==
    { [net |-> "neterror"], [net |-> "status500"], [net |-> "badjson"] }
        \cup { [net |-> "ok", data |-> b] : b \in Bodies }

Answers ==
    { [net |-> "neterror"], [net |-> "status500"],
      [net |-> "ok", data |-> [kind |-> "object", reply |-> <<"r">>, output |-> <<"o">>]],
      [net |-> "ok", data |-> [kind |-> "null"]] }

\* data.reply || data.output || (typeof data === 'string' ? data : sentinel);
\* an absent property and an empty string are both falsy.
Truthy(data, k) == k \in DOMAIN data /\ data[k] # << >>

\* A decoding that looks at the output field first.
ReplyTextOutputFirst(data) ==
    IF Truthy(data, "output") THEN data.output
    ELSE IF Truthy(data, "reply") THEN data.reply
    ELSE IF data.kind = "string" THEN data.value
    ELSE NoTextSentinel

ReplyText(data) ==
    IF Truthy(data, "reply") THEN data.reply
    ELSE IF Truthy(data, "output") THEN data.output
    ELSE IF data.kind = "string" THEN data.value
    ELSE NoTextSentinel

\* A catch block that logs the failure and returns.
WebhookSwallows(raised) == FALSE

\* catch (error) { console.error(...); throw error; }
WebhookRethrows(raised) == raised

\* sendMessageToWebhook: a file that cannot be read fails before the request
\* is sent; a network failure, a non-success status, a body that is no JSON
\* and a null body (reading a property of null) fail after it; every
\* failure is raised again, otherwise the text is returned.
sendMessageToWebhook(message, conversationId, file, readable, answer) ==
    LET encodeFails == file # NoFile /\ ~readable
        raised == \/ encodeFails
                  \/ answer.net # "ok"
                  \/ answer.data.kind = "null"
    IN  [throws |-> WebhookRethrows(raised),
         requests |-> IF encodeFails THEN 0 ELSE 1,
         text |-> IF raised THEN << >> ELSE ReplyText(answer.data)]

\* ------------------------------------------- access log (loggingService)
\* navigator.userAgent, as the set of the names it contains.
UserAgents ==
    { {}, {"Firefox"}, {"Android", "Firefox"}, {"SamsungBrowser", "Android",
      "Chrome", "Safari"}, {"OPR", "Chrome", "Safari"}, {"Trident"},
      {"Edge", "Chrome", "Safari"}, {"Chrome", "Safari"},
      {"iPhone", "Safari"}, {"Android", "Chrome", "Safari"} }

\* /Android|webOS|iPhone|iPad|iPod|BlackBerry|IEMobile|Opera Mini/i
DeviceType(userAgent) ==
    IF userAgent \cap {"Android", "webOS", "iPhone", "iPad", "iPod",
                       "BlackBerry", "IEMobile", "Opera Mini"} # {}
    THEN "Mobile" ELSE "Desktop"

BrowserName(userAgent) ==
    IF "Firefox" \in userAgent THEN "Mozilla Firefox"
    ELSE IF "SamsungBrowser" \in userAgent THEN "Samsung Internet"
    ELSE IF "Opera" \in userAgent \/ "OPR" \in userAgent THEN "Opera"
    ELSE IF "Trident" \in userAgent THEN "Microsoft Internet Explorer"
    ELSE IF "Edge" \in userAgent THEN "Microsoft Edge"
    ELSE IF "Chrome" \in userAgent THEN "Google Chrome"
    ELSE IF "Safari" \in userAgent THEN "Apple Safari"
    ELSE "Desconhecido"

\* What the IP lookup may do: the request fails, answers with a non-success
\* status, with a body that is no JSON, with null, with success false or
\* with an address.
IpAnswers == {"neterror", "status500", "badjson", "null", "refused", "ok"}

\* ipAddress and location after the inner try block: the defaults unless
\* the lookup answered with success.
IpLookup(answer) ==
    IF answer = "ok"
    THEN [ip_address |-> "203.0.113.7", location |-> "Sao Paulo, SP - BR"]
    ELSE [ip_address |-> "0.0.0.0", location |-> "Desconhecido"]

\* What the access_logs insert may do: insert, report an error, or raise.
InsertAnswers == {"ok", "error", "throws"}

\* An outer catch block that raises what it caught again.
LogRethrown(raised) == raised

\* catch (error) { console.error(...) }: whether registerAccessLog's promise
\* is rejected after an exception was raised inside it.
LogCaught(raised) == FALSE

\* The LoginView before a submit; no access log is being written.
LoginInit ==
    [view |-> "login", isLoading |-> FALSE, pc |-> "idle", toast |-> "none",
     signedIn |-> 0, entered |-> 0, log |-> [pc |-> "none"],
     rejected |-> FALSE, access_logs |-> << >>]

\* -------------------------------------- the registration wizard, at mount
\* The form as far as validation sees it: the CPF field, whether the other
\* fields of step 1 satisfy step1Schema, whether those of step 2 satisfy
\* step2Schema.
EmptyForm == [cpf |-> << >>, personal |-> FALSE, address |-> FALSE]

\* useState(1), useState(false); no validation and no submit under way.
WizardInit ==
    [view |-> "onboarding", step |-> 1, isSubmitting |-> FALSE,
     pending |-> << >>, pc |-> "idle", form |-> EmptyForm, data |-> EmptyForm,
     calls |-> << >>, toast |-> "none"]

\* ------------------------------------------------------- the chat view
\* A backend that already holds one conversation of an earlier visit.
UsedDb ==
    [conversations |-> << [id |-> 1, title |-> <<"a">>] >>,
     chat_messages |->
        << [id |-> ServerId(2), conversation_id |-> 1, role |-> "user",
            content |-> <<"a">>, attachment_info |-> NoAttachment],
           [id |-> ServerId(3), conversation_id |-> 1, role |-> "assistant",
            content |-> <<"r">>, attachment_info |-> NoAttachment] >>,
     objects |-> {}, serial |-> 3]

\* What saveMessageToDb was given for a row, as savedLog keeps it.
Supplied(conversationId, role, content, attachmentInfo) ==
    [conversation_id |-> conversationId, role |-> role, content |-> content,
     attachmentInfo |-> attachmentInfo]

\* The view after its first render and its mount effects: the conversation
\* list is being fetched, and the loadMessages effect, run with no active
\* conversation, has put the welcome message in the list.
Init ==
    /\ messages = <<Welcome>>
    /\ inputValue = << >>
    /\ selectedFile = NoFile
    /\ isTyping = FALSE
    /\ conversations = << >>
    /\ activeConversationId = NoId
    /\ runs = << >>
    /\ done = [n |-> 0, pc |-> "none", calls |-> << >>]
    /\ loads = << >>
    /\ deletes = {}
    /\ fetch = "sent"
    /\ db = UsedDb
    /\ savedLog = [i \in 1..Len(db.chat_messages) |->
                     Supplied(db.chat_messages[i].conversation_id,
                              db.chat_messages[i].role,
                              db.chat_messages[i].content, NoAttachment)]
    /\ sends = 0
    /\ last = [op |-> "none"]
    /\ login = LoginInit
    /\ wizard = WizardInit

\* fetchConversations effect: getConversations answers and
\* setConversations(list) replaces the sidebar list.
FetchReturn(out) ==
    /\ fetch = "sent"
    /\ conversations' = getConversations(out, db)
    /\ fetch' = "done"
    /\ UNCHANGED <<messages, inputValue, selectedFile, isTyping,
                   activeConversationId, runs, done, loads, deletes, db,
                   savedLog, sends, last, login, wizard>>

\* onChange of the text field: setInputValue(e.target.value)
TypeText(t) ==
    /\ inputValue # t
    /\ inputValue' = t
    /\ UNCHANGED <<messages, selectedFile, isTyping, conversations,
                   activeConversationId, runs, done, loads, deletes, fetch, db,
                   savedLog, sends, last, login, wizard>>

\* handleFileSelect: setSelectedFile(e.target.files[0])
handleFileSelect(f) ==
    /\ selectedFile # f
    /\ selectedFile' = f
    /\ UNCHANGED <<messages, inputValue, isTyping, conversations,
                   activeConversationId, runs, done, loads, deletes, fetch, db,
                   savedLog, sends, last, login, wizard>>

\* The X button of the file chip: setSelectedFile(null)
ClearFile ==
    /\ selectedFile # NoFile
    /\ selectedFile' = NoFile
    /\ UNCHANGED <<messages, inputValue, isTyping, conversations,
                   activeConversationId, runs, done, loads, deletes, fetch, db,
                   savedLog, sends, last, login, wizard>>

\* The loadMessages effect, run after a render in which activeConversationId
\* changed to id: the visible list and the loads in flight it leaves.
EffectMessages(id) ==
    IF id # activeConversationId /\ id = NoId THEN <<Welcome>> ELSE messages

EffectLoads(id) ==
    IF id # activeConversationId /\ id # NoId
    THEN Append(loads, [id |-> id, pc |-> "sent", history |-> << >>])
    ELSE loads

\* Click on a conversation of the sidebar: setActiveConversationId(conv.id)
SelectConversation(k) ==
    /\ k \in 1..Len(conversations)
    /\ conversations[k].id # activeConversationId
    /\ Len(loads) < MaxPending
    /\ activeConversationId' = conversations[k].id
    /\ messages' = EffectMessages(conversations[k].id)
    /\ loads' = EffectLoads(conversations[k].id)
    /\ UNCHANGED <<inputValue, selectedFile, isTyping, conversations, runs,
                   done, deletes, fetch, db, savedLog, sends, last, login, wizard>>

\* handleNewConversation: setActiveConversationId(null)
handleNewConversation ==
    /\ activeConversationId # NoId
    /\ activeConversationId' = NoId
    /\ messages' = EffectMessages(NoId)
    /\ loads' = EffectLoads(NoId)
    /\ UNCHANGED <<inputValue, selectedFile, isTyping, conversations, runs,
                   done, deletes, fetch, db, savedLog, sends, last, login, wizard>>

\* The loadMessages effect: loadChatHistory reads the rows ...
LoadRead(j, out) ==
    /\ j \in 1..Len(loads)
    /\ loads[j].pc = "sent"
    /\ loads' = [loads EXCEPT ![j] =
                    [@ EXCEPT !.pc = "read",
                              !.history = loadChatHistory(loads[j].id, out, db)]]
    /\ UNCHANGED <<messages, inputValue, selectedFile, isTyping, conversations,
                   activeConversationId, runs, done, deletes, fetch, db,
                   savedLog, sends, last, login, wizard>>

\* ... and setMessages(history) when the answer arrives.
LoadReturn(j) ==
    /\ j \in 1..Len(loads)
    /\ loads[j].pc = "read"
    /\ messages' = loads[j].history
    /\ loads' = RemoveAt(loads, j)
    /\ UNCHANGED <<inputValue, selectedFile, isTyping, conversations,
                   activeConversationId, runs, done, deletes, fetch, db,
                   savedLog, sends, last, login, wizard>>

\* handleDeleteConversation up to its await: the request is sent.  The
\* handler keeps the activeConversationId of the render it was created in,
\* which it only compares with id.
DeleteStart(k) ==
    /\ k \in 1..Len(conversations)
    /\ Cardinality(deletes) < MaxPending
    /\ deletes' = deletes \cup
                    {[id |-> conversations[k].id,
                      wasActive |-> activeConversationId = conversations[k].id]}
    /\ deletes' # deletes
    /\ UNCHANGED <<messages, inputValue, selectedFile, isTyping, conversations,
                   activeConversationId, runs, done, loads, fetch, db,
                   savedLog, sends, last, login, wizard>>

\* handleDeleteConversation after its await.
DeleteReturn(d, out) ==
    /\ d \in deletes
    /\ LET res == deleteConversation(d.id, out, db)
           next == IF res.result /\ d.wasActive THEN NoId
                   ELSE activeConversationId
       IN  /\ db' = res.db
           /\ savedLog' = IF out = "ok"
                          THEN SelectSeq(savedLog,
                                         LAMBDA m : m.conversation_id # d.id)
                          ELSE savedLog
           /\ conversations' = IF res.result
                               THEN WithoutConversation(conversations, d.id)
                               ELSE conversations
           /\ activeConversationId' = next
           /\ messages' = EffectMessages(next)
           /\ loads' = EffectLoads(next)
    /\ deletes' = deletes \ {d}
    /\ UNCHANGED <<inputValue, selectedFile, isTyping, runs, done, fetch,
                   sends, last, login, wizard>>

\* ------------------------------------------ handleSendMessage, the pipeline
\* A guard that forgets the busy flag.
CanSendWhileBusy(text, file, typing) ==
    ~(Trim(text) = << >> /\ file = NoFile)

\* A guard that only looks at the busy flag.
CanSendBlank(text, file, typing) == ~typing

\* if ((!inputValue.trim() && !selectedFile) || isTyping) return;
CanSend(text, file, typing) ==
    ~((Trim(text) = << >> /\ file = NoFile) \/ typing)

\* The message shown at once, under a locally generated id; an image gets a
\* local preview reference.
OptimisticMessage(n, text, file) ==
    [id |-> LocalId(n), role |-> "user", content |-> text,
     attachment |->
        IF file # NoFile
        THEN [name |-> file, type |-> FileType[file],
              previewUrl |-> IF IsImage(file) THEN BlobUrl(file) ELSE None,
              url |-> None]
        ELSE NoAttachment]

\* A run that never creates its conversation.
NeedsConversationNever(currentId) == FALSE

\* if (!currentId): whether the run has to create a conversation.
NeedsConversation(currentId) == currentId = NoId

\* A run that goes to the reply request without writing the user message.
AfterResolveSkipsSave(file) == "sendMessageToWebhook"

\* if (fileToSend): the call the run makes once its conversation is known.
AfterResolve(file) ==
    IF file # NoFile THEN "uploadChatAttachment" ELSE "saveUser"

\* if (newConversation) ... else throw new Error("Falha ao criar ...")
AfterCreate(result, file) ==
    IF result # << >> THEN AfterResolve(file) ELSE "failed"

\* if (!currentId) throw new Error("ID da conversa é nulo.")
Safeguard(currentId, next) == IF currentId = NoId THEN "failed" ELSE next

\* if (url) publicAttachmentUrl = url
AttachmentUrl(url) == IF url # None THEN url ELSE None

\* An upload failure that is raised to the catch block.
AfterUploadStrict(url) == IF url = None THEN "failed" ELSE "saveUser"

\* A null from uploadChatAttachment does not leave the try block.
AfterUpload(url) == "saveUser"

\* A run that reads the active conversation of the view at each step.
ConversationOfView(r, active) == active

\* The conversation id steps 3 to 6 use: the local currentId of the run, not
\* the activeConversationId of whatever render is current.
ConversationOf(r, active) == r.currentId

\* dbAttachmentInfo
DbAttachmentInfo(file, url) ==
    IF file # NoFile
    THEN [name |-> file, type |-> FileType[file], url |-> url]
    ELSE NoAttachment

\* A reply failure that is swallowed, the run going on to step 6.
AfterWebhookSwallowed(throws) == "saveAssistant"

\* A reply request that is issued again after it failed.
AfterWebhookRetried(throws) ==
    IF throws THEN "sendMessageToWebhook" ELSE "saveAssistant"

\* A raised sendMessageToWebhook leaves the try block.
AfterWebhook(throws) == IF throws THEN "failed" ELSE "saveAssistant"

AiMessage(n, text) ==
    [id |-> ReplyId(n), role |-> "assistant", content |-> text,
     attachment |-> NoAttachment]

\* A catch block that takes the run's optimistic message off the list.
VisibleAfterReplyRolledBack(ms, n, text, failed) ==
    IF failed THEN SelectSeq(ms, LAMBDA m : m.id # LocalId(n))
    ELSE Append(ms, AiMessage(n, text))

\* setMessages(prev => [...prev, aiMessage]) when the reply arrived; the
\* catch block leaves the list as it is.
VisibleAfterReply(ms, n, text, failed) ==
    IF failed THEN ms ELSE Append(ms, AiMessage(n, text))

\* A sidebar that gets the new conversation twice.
WithNewConversationTwice(newConversation, prev) ==
    <<newConversation, newConversation>> \o prev

\* setConversations(prev => [newConversation, ...prev])
WithNewConversation(newConversation, prev) == <<newConversation>> \o prev

\* A run that reads the text field anew at each step.
ContentOfField(r, input) == input

\* const contentToSend = inputValue: the text every later step uses is the
\* one captured before the field was cleared.
ContentOf(r, input) == r.contentToSend

\* The run with one more entry in the record of what it did.
Call(r, c) == [r EXCEPT !.calls = Append(@, c)]

\* A catch block that reports nothing.
CaughtSilently(r) == r

\* catch: toast("Erro ao processar mensagem: ...", "error")
Caught(r) == Call(r, [op |-> "toast"])

\* A run that leaves the busy flag as it is.
FinallyForgotten(typing) == typing

\* finally: setIsTyping(false)
Finally(typing) == FALSE

Ends(pc) == pc \in {"failed", "completed"}

\* The run goes on to its next await, or leaves through catch and finally.
Settle(i, r) ==
    IF Ends(r.pc)
    THEN /\ runs' = RemoveAt(runs, i)
         /\ done' = IF r.pc = "failed" THEN Caught(r) ELSE r
         /\ isTyping' = Finally(isTyping)
    ELSE /\ runs' = [runs EXCEPT ![i] = r]
         /\ UNCHANGED <<done, isTyping>>

\* The entry a saveMessageToDb call leaves: what it was given, whether a row
\* was inserted, and the row's id.
SaveCall(role, conversationId, attachmentInfo, d, after) ==
    [op |-> "saveMessageToDb", role |-> role, conversationId |-> conversationId,
     attachmentInfo |-> attachmentInfo, inserted |-> after # d,
     row |-> IF after # d THEN after.chat_messages[Len(after.chat_messages)].id
             ELSE ServerId(0)]

\* handleSendMessage up to its first await, with the text field holding text
\* and the file selection holding file.
SendWith(text, file) ==
    /\ sends - Len(runs) < MaxSends
    /\ CanSend(text, file, isTyping)
    /\ messages' = Append(messages, OptimisticMessage(sends + 1, text, file))
    /\ inputValue' = << >>
    /\ selectedFile' = NoFile
    /\ sends' = sends + 1
    /\ LET r == [n |-> sends + 1,
                 pc |-> IF NeedsConversation(activeConversationId)
                        THEN "createConversation"
                        ELSE Safeguard(activeConversationId, AfterResolve(file)),
                 contentToSend |-> text,
                 fileToSend |-> file,
                 currentId |-> activeConversationId,
                 publicAttachmentUrl |-> None,
                 responseText |-> << >>,
                 fresh |-> activeConversationId = NoId,
                 calls |-> << [op |-> "optimistic"] >>]
       IN  IF Ends(r.pc)
           THEN /\ done' = Caught(r)
                /\ isTyping' = Finally(TRUE)
                /\ UNCHANGED runs
           ELSE /\ runs' = Append(runs, r)
                /\ isTyping' = TRUE
                /\ UNCHANGED done
    /\ UNCHANGED <<conversations, activeConversationId, loads, deletes, fetch,
                   db, savedLog, last, login, wizard>>

\* The submit of the form as the user left it.
Send == SendWith(inputValue, selectedFile)

\* The user types text, picks file (or none) and submits.  Typing and file
\* selection change nothing but the draft, so the draft is taken as the input
\* of the submit.
Submit(text, file) == SendWith(text, file)

\* STEP 1: createConversation answers.
CreateReturn(i, out) ==
    /\ i \in 1..Len(runs)
    /\ runs[i].pc = "createConversation"
    /\ LET r == runs[i]
           c == createConversation(ContentOf(r, inputValue), out, db)
           id == IF c.result # << >> THEN c.result.id ELSE NoId
           next == AfterCreate(c.result, r.fileToSend)
           pc == IF next = "failed" THEN next ELSE Safeguard(id, next)
       IN  /\ db' = c.db
           /\ IF c.result # << >>
              THEN /\ activeConversationId' = id
                   /\ conversations' = WithNewConversation(c.result, conversations)
                   /\ loads' = EffectLoads(id)
                   /\ messages' = EffectMessages(id)
              ELSE UNCHANGED <<activeConversationId, conversations, loads,
                               messages>>
           /\ Settle(i, [Call(r, [op |-> "createConversation",
                                  insert |-> c.insert,
                                  title |-> ContentOf(r, inputValue),
                                  created |-> c.result # << >>])
                           EXCEPT !.pc = pc, !.currentId = id])
    /\ UNCHANGED <<inputValue, selectedFile, deletes, fetch, savedLog, sends,
                   last, login, wizard>>

\* STEP 2: uploadChatAttachment answers.
UploadReturn(i, out) ==
    /\ i \in 1..Len(runs)
    /\ runs[i].pc = "uploadChatAttachment"
    /\ LET r == runs[i]
           u == uploadChatAttachment(r.fileToSend, out, db)
       IN  /\ db' = u.db
           /\ Settle(i, [Call(r, [op |-> "uploadChatAttachment",
                                  url |-> u.result])
                           EXCEPT !.pc = IF u.throws THEN "failed"
                                         ELSE AfterUpload(u.result),
                                  !.publicAttachmentUrl = AttachmentUrl(u.result)])
    /\ UNCHANGED <<messages, inputValue, selectedFile, conversations,
                   activeConversationId, loads, deletes, fetch, savedLog, sends,
                   last, login, wizard>>

\* STEP 3: saveMessageToDb(currentId, 'user', ...) answers.
SaveUserReturn(i, out) ==
    /\ i \in 1..Len(runs)
    /\ runs[i].pc = "saveUser"
    /\ LET r == runs[i]
           info == DbAttachmentInfo(r.fileToSend, r.publicAttachmentUrl)
       IN  /\ db' = saveMessageToDb(ConversationOf(r, activeConversationId), "user", ContentOf(r, inputValue), info,
                                    out, db)
           /\ savedLog' = IF db' # db
                          THEN Append(savedLog,
                                      Supplied(ConversationOf(r, activeConversationId), "user",
                                               ContentOf(r, inputValue), info))
                          ELSE savedLog
           /\ Settle(i, [Call(r, SaveCall("user", ConversationOf(r, activeConversationId), info, db, db'))
                           EXCEPT !.pc = IF SaveRaises(out) THEN "failed"
                                         ELSE "sendMessageToWebhook"])
    /\ UNCHANGED <<messages, inputValue, selectedFile, conversations,
                   activeConversationId, loads, deletes, fetch, sends, last, login, wizard>>

\* STEP 4 and 5: sendMessageToWebhook answers or raises.
WebhookReturn(i, readable, answer) ==
    /\ i \in 1..Len(runs)
    /\ runs[i].pc = "sendMessageToWebhook"
    /\ LET r == runs[i]
           w == sendMessageToWebhook(ContentOf(r, inputValue), ConversationOf(r, activeConversationId), r.fileToSend,
                                     readable, answer)
           rr == [Call(r, [op |-> "sendMessageToWebhook",
                           message |-> ContentOf(r, inputValue),
                           file |-> r.fileToSend,
                           conversationId |-> ConversationOf(r, activeConversationId),
                           requests |-> w.requests, throws |-> w.throws])
                    EXCEPT !.pc = AfterWebhook(w.throws),
                           !.responseText = w.text]
       IN  /\ messages' = VisibleAfterReply(messages, r.n, rr.responseText,
                                            rr.pc = "failed")
           /\ Settle(i, rr)
    /\ UNCHANGED <<inputValue, selectedFile, conversations,
                   activeConversationId, loads, deletes, fetch, db, savedLog,
                   sends, last, login, wizard>>

\* STEP 6: saveMessageToDb(currentId, 'assistant', ...) answers; finally.
SaveAssistantReturn(i, out) ==
    /\ i \in 1..Len(runs)
    /\ runs[i].pc = "saveAssistant"
    /\ LET r == runs[i]
       IN  /\ db' = saveMessageToDb(ConversationOf(r, activeConversationId), "assistant", r.responseText,
                                    NoAttachment, out, db)
           /\ savedLog' = IF db' # db
                          THEN Append(savedLog,
                                      Supplied(ConversationOf(r, activeConversationId), "assistant",
                                               r.responseText, NoAttachment))
                          ELSE savedLog
           /\ Settle(i, [Call(r, SaveCall("assistant", ConversationOf(r, activeConversationId),
                                          NoAttachment, db, db'))
                           EXCEPT !.pc = IF SaveRaises(out) THEN "failed"
                                         ELSE "completed"])
    /\ UNCHANGED <<messages, inputValue, selectedFile, conversations,
                   activeConversationId, loads, deletes, fetch, sends, last, login, wizard>>

\* ------------------------------------------------------- specification
Pipeline ==
    \E i \in 1..MaxSends :
        \/ \E out \in Outcomes : CreateReturn(i, out)
        \/ \E out \in UploadOutcomes : UploadReturn(i, out)
        \/ \E out \in SaveOutcomes : SaveUserReturn(i, out)
        \/ \E readable \in BOOLEAN, answer \in Answers :
               WebhookReturn(i, readable, answer)
        \/ \E out \in SaveOutcomes : SaveAssistantReturn(i, out)

Effects ==
    \/ \E out \in Outcomes : FetchReturn(out)
    \/ \E j \in 1..(MaxPending + MaxSends), out \in Outcomes : LoadRead(j, out)
    \/ \E j \in 1..(MaxPending + MaxSends) : LoadReturn(j)

User ==
    \/ \E k \in 1..(MaxSends + 1) : SelectConversation(k)
    \/ handleNewConversation
    \/ \E k \in 1..(MaxSends + 1) : DeleteStart(k)
    \/ \E d \in deletes, out \in {"ok", "norows", "error"} : DeleteReturn(d, out)
    \/ \E t \in Texts, f \in Files \cup {NoFile} : Submit(t, f)

Next == Pipeline \/ Effects \/ User

Spec == Init /\ [][Next]_vars

\* The pipeline under the scheduling the code relies on: every network call
\* of a run in flight returns or fails, so every await is resumed.
FairSpec == Spec /\ WF_vars(Pipeline)

\* ----------------------------------------------------------- properties
\* The runs in flight and the run that ended last.
Runs == {runs[i] : i \in 1..Len(runs)} \cup (IF done.n > 0 THEN {done} ELSE {})

Calls(r, op) == SelectSeq(r.calls, LAMBDA c : c.op = op)

Saves(r, role) ==
    SelectSeq(r.calls, LAMBDA c : c.op = "saveMessageToDb" /\ c.role = role)

Inserted(cs) == SelectSeq(cs, LAMBDA c : c.inserted)

\* The network calls of a run, in the order they returned.
NetCalls(r) == SelectSeq(r.calls, LAMBDA c : c.op \notin {"optimistic", "toast"})

Ops(cs) == [k \in 1..Len(cs) |-> cs[k].op]

WebhookFailed(r) ==
    \E k \in 1..Len(r.calls) :
        r.calls[k].op = "sendMessageToWebhook" /\ r.calls[k].throws

UploadFailed(r) ==
    \E k \in 1..Len(r.calls) :
        r.calls[k].op = "uploadChatAttachment" /\ r.calls[k].url = None

\* The rows of chat_messages a run wrote that are still in the table.
RowsWritten(r) ==
    SelectSeq(db.chat_messages,
              LAMBDA m : \E k \in 1..Len(r.calls) :
                            /\ r.calls[k].op = "saveMessageToDb"
                            /\ r.calls[k].inserted
                            /\ r.calls[k].row = m.id)

\* C1: While a send is in flight the busy flag is set and a further send
\* action starts no second run: at most one run of the pipeline is in flight
\* in every reachable state, and the busy flag is set exactly while one is.
C1_SingleFlight == Len(runs) <= 1 /\ (isTyping <=> runs # << >>)

\* A run is in flight and only the busy flag keeps the next send out.
C1_Witness == isTyping /\ Len(runs) = 1 /\ sends - Len(runs) < MaxSends

\* C2 as stated: a run started with no active conversation has performed
\* exactly one conversations insert when it ends.
C2_Original ==
    \A r \in Runs :
        (r.fresh /\ Ends(r.pc)) =>
            Len(SelectSeq(r.calls, LAMBDA c : c.op = "createConversation"
                                                /\ c.insert)) = 1

\* C2 as amended: a run started with no active conversation calls
\* createConversation exactly once (a run started in a conversation never),
\* that call is the first network call of the run, and a saveMessageToDb write
\* is issued only after it has returned a created conversation.
C2_CreateThenWrite ==
    \A r \in Runs :
        LET creates == Calls(r, "createConversation")
        IN  /\ Len(creates) =
                  IF r.fresh /\ r.pc # "createConversation" THEN 1 ELSE 0
            /\ (r.fresh /\ NetCalls(r) # << >>) =>
                  NetCalls(r)[1].op = "createConversation"
            /\ (r.fresh /\ (r.pc \in {"saveUser", "saveAssistant"}
                            \/ Calls(r, "saveMessageToDb") # << >>)) =>
                  /\ creates[1].created
                  /\ r.currentId # NoId

\* A run that had to create its conversation has written its user message.
C2_Witness ==
    \E r \in Runs : r.fresh /\ Inserted(Saves(r, "user")) # << >>

\* C3 as stated: when the reply request of a run has failed, the run ends
\* with exactly one user message and no assistant message persisted.
C3_Original ==
    \A r \in Runs :
        (WebhookFailed(r) /\ Ends(r.pc)) =>
            /\ Len(Inserted(Saves(r, "user"))) = 1
            /\ Len(Inserted(Saves(r, "assistant"))) = 0

\* C3 as amended: when the reply request of a run has failed, the run has
\* ended there, having made exactly one user-message write and no
\* assistant-message write: at most one user message (one if that insert
\* succeeded) and no assistant message is persisted for the exchange.
C3_ReplyFailure ==
    \A r \in Runs :
        WebhookFailed(r) =>
            /\ r.pc = "failed"
            /\ Len(Saves(r, "user")) = 1
            /\ Len(Saves(r, "assistant")) = 0
            /\ Len(RowsWritten(r)) <= 1
            /\ \A k \in 1..Len(RowsWritten(r)) : RowsWritten(r)[k].role = "user"

\* The reply request failed after the user message was persisted.
C3_Witness ==
    /\ done.n > 0
    /\ WebhookFailed(done)
    /\ Len(RowsWritten(done)) = 1

\* C4: When uploadChatAttachment returns null the run is not aborted: the
\* user message is written with a descriptor holding the file's name and type
\* and no durable URL (the stored row has no url), and the reply gateway is
\* still called.
C4_UploadFailureDegrades ==
    \A r \in Runs :
        UploadFailed(r) =>
            /\ r.pc = "failed" => WebhookFailed(r)
            /\ \A k \in 1..Len(Saves(r, "user")) :
                  Saves(r, "user")[k].attachmentInfo =
                      [name |-> r.fileToSend, type |-> FileType[r.fileToSend],
                       url |-> None]
            /\ \A k \in 1..Len(RowsWritten(r)) :
                  RowsWritten(r)[k].role = "user" =>
                      DOMAIN RowsWritten(r)[k].attachment_info = {"name", "type"}
            /\ Ends(r.pc) =>
                  /\ Len(Saves(r, "user")) = 1
                  /\ Len(Calls(r, "sendMessageToWebhook")) = 1

\* A run whose upload failed has completed, its user message persisted.
C4_Witness ==
    /\ done.n > 0
    /\ done.pc = "completed"
    /\ UploadFailed(done)
    /\ \E k \in 1..Len(RowsWritten(done)) : RowsWritten(done)[k].role = "user"

\* C8: When createConversation returns null the run ends at once: the step
\* reports one error, clears the busy flag, performs no upload, no message
\* write and no reply request, and leaves the active conversation, the
\* conversation list, the backend and the visible list (with the optimistic
\* message) as they were.
C8_AbortOnCreateFailure ==
    [][ \A i \in 1..Len(runs) :
          (/\ runs[i].pc = "createConversation"
           /\ done' # done
           /\ done'.n = runs[i].n)
          => /\ done'.pc = "failed"
             /\ Ops(done'.calls) = <<"optimistic", "createConversation", "toast">>
             /\ ~done'.calls[2].created
             /\ messages' = messages
             /\ activeConversationId' = activeConversationId
             /\ conversations' = conversations
             /\ db' = db
             /\ ~isTyping' ]_vars

\* A run has ended on a failed createConversation: no conversation is active
\* and the optimistic message is in the visible list.
C8_Witness ==
    /\ done.n > 0
    /\ done.pc = "failed"
    /\ Len(done.calls) = 3
    /\ done.calls[2].op = "createConversation"
    /\ activeConversationId = NoId
    /\ \E k \in 1..Len(messages) : messages[k].id = LocalId(done.n)

\* What loadChatHistory returns for a conversation, without the row ids.
Loaded(c) ==
    LET h == loadChatHistory(c, "ok", db)
    IN  [k \in 1..Len(h) |->
            [role |-> h[k].role, content |-> h[k].content,
             attachment |-> h[k].attachment]]

\* What the successful saveMessageToDb calls on a conversation supplied, in
\* the order of the calls, as a history without any preview reference.
SuppliedTo(c) ==
    LET log == SelectSeq(savedLog, LAMBDA m : m.conversation_id = c)
    IN  [k \in 1..Len(log) |->
            [role |-> log[k].role, content |-> log[k].content,
             attachment |->
                IF log[k].attachmentInfo = NoAttachment THEN NoAttachment
                ELSE [name |-> log[k].attachmentInfo.name,
                      type |-> log[k].attachmentInfo.type,
                      url |-> log[k].attachmentInfo.url,
                      previewUrl |-> None]]]

\* C9: For every conversation of the backend, loadChatHistory returns the
\* messages of the successful saveMessageToDb calls on it, in the order
\* of the calls, each with the role, content and attachment name, type and
\* durable URL that were supplied, and with no preview reference.
C9_RoundTrip ==
    \A k \in 1..Len(db.conversations) :
        Loaded(db.conversations[k].id) = SuppliedTo(db.conversations[k].id)

\* A conversation holds a run's user message with a durable attachment URL,
\* followed by the assistant's reply.
C9_Witness ==
    \E k \in 1..Len(db.conversations) :
        LET h == Loaded(db.conversations[k].id)
        IN  \E j \in 1..(Len(h) - 1) :
                /\ h[j].role = "user"
                /\ h[j].attachment # NoAttachment
                /\ h[j].attachment.url # None
                /\ h[j + 1].role = "assistant"

\* What the view is meant to show for the active conversation: its history,
\* or nothing when the load fails.
Shown(id) ==
    IF id = NoId THEN {<<Welcome>>}
    ELSE {loadChatHistory(id, "ok", db), << >>}

\* C10 as stated: once every history load has returned, the visible list is
\* the welcome message when no conversation is active and the history of the
\* active conversation otherwise.  Stated for a user who only switches
\* conversations: nothing was sent and nothing was deleted.
C10_Original ==
    (loads = << >> /\ sends = 0 /\ deletes = {} /\ db = UsedDb) =>
        messages \in Shown(activeConversationId)

\* C6: Every run that sets the busy flag ends and clears it, whichever way
\* it leaves the try block, given that each of its network calls returns or
\* fails.
C6_BusyClears ==
    isTyping ~> (~isTyping /\ runs = << >> /\ CanSend(<<"a">>, NoFile, isTyping))

\* A run has left through the catch block and the busy flag is clear.
C6_Witness == done.n > 0 /\ done.pc = "failed" /\ ~isTyping /\ runs = << >>

\* ------------------------------------------- the gateway called directly
\* The titles handed to createConversation: empty, short, of exactly the
\* limit and longer, with a first or last character that tells a cut at the
\* front from a cut at the back.
Titles ==
    UNION { { Rep("a", n), <<"b">> \o Rep("a", n), Rep("a", n) \o <<"b">> }
            : n \in 0..(TitleMax + 1) }

\* The attachment descriptions handed to saveMessageToDb.
AttachmentInfos ==
    {NoAttachment} \cup
    { [name |-> f, type |-> FileType[f], url |-> u]
        : f \in Files, u \in {None, PublicUrl("pic.png")} }

\* await createConversation(title)
CallCreateConversation(title, out) ==
    /\ Len(db.conversations) < Len(UsedDb.conversations) + MaxSends
    /\ db.serial < UsedDb.serial + MaxSends + 1
    /\ LET res == createConversation(title, out, db)
       IN  /\ db' = res.db
           /\ last' = [op |-> "createConversation", title |-> title,
                       out |-> out, result |-> res.result,
                       wrote |-> res.db # db]
    /\ UNCHANGED <<messages, inputValue, selectedFile, isTyping, conversations,
                   activeConversationId, runs, done, loads, deletes, fetch,
                   savedLog, sends, login, wizard>>

NextGateway ==
    \E title \in Titles, out \in Outcomes : CallCreateConversation(title, out)

SpecGateway == Init /\ [][NextGateway]_vars

\* The title the conversations table holds for an id.
StoredTitle(id) ==
    LET rows == SelectSeq(db.conversations, LAMBDA c : c.id = id)
    IN  rows[1].title

\* C7: A createConversation(title) that succeeds stores and returns the
\* title itself when it has 1 to 30 characters, "Nova Conversa" when it is
\* empty, and its first 30 characters when it is longer; no stored title is
\* longer than 30 characters.
C7_StoredTitle ==
    /\ \A k \in 1..Len(db.conversations) :
            Len(db.conversations[k].title) <= TitleMax
    /\ (last.op = "createConversation" /\ last.result # << >>) =>
            LET title == last.title
                stored == StoredTitle(last.result.id)
            IN  /\ last.result.title = stored
                /\ Len(title) \in 1..TitleMax => stored = title
                /\ title = << >> => stored = Placeholder
                /\ Len(title) > TitleMax =>
                        stored = [i \in 1..TitleMax |-> title[i]]

\* A title longer than the limit, whose last character differs from the
\* others, was stored cut to the limit.
C7_Witness ==
    /\ last.op = "createConversation"
    /\ last.result # << >>
    /\ Len(last.title) > TitleMax
    /\ last.title[Len(last.title)] = "b"
    /\ Len(StoredTitle(last.result.id)) = TitleMax

\* C5: No chat_messages row has an empty conversation id: every
\* saveMessageToDb call of the pipeline names a conversation, and
\* saveMessageToDb called with an empty conversation id leaves the backend
\* as it is, whatever the session and the backend answer.
C5_NoOrphanMessage ==
    /\ \A k \in 1..Len(db.chat_messages) :
            db.chat_messages[k].conversation_id # NoId
    /\ \A r \in Runs : \A k \in 1..Len(r.calls) :
            r.calls[k].op = "saveMessageToDb" => r.calls[k].conversationId # NoId
    /\ \A role \in {"user", "assistant"}, content \in Texts,
          attachmentInfo \in AttachmentInfos, out \in SaveOutcomes :
            saveMessageToDb(NoId, role, content, attachmentInfo, out, db) = db

\* A run that started with no active conversation created one and wrote its
\* user message under the id of the new conversation.
C5_Witness ==
    \E r \in Runs :
        /\ r.fresh
        /\ \E k \in 1..Len(r.calls) :
              /\ r.calls[k].op = "saveMessageToDb"
              /\ r.calls[k].inserted
              /\ r.calls[k].conversationId # NoId
              /\ \E j \in 1..Len(db.chat_messages) :
                    /\ db.chat_messages[j].id = r.calls[k].row
                    /\ db.chat_messages[j].conversation_id = r.calls[k].conversationId

\* C11: A send with blank text and no file starts nothing: it has no
\* successor state, so the visible list, the input, the busy flag and the
\* backend stay as they are and no call is made; every run that exists was
\* started with non-blank text or with a file.
C11_BlankSendIsNoOp ==
    /\ \A t \in Texts : Trim(t) = << >> => ~ENABLED Submit(t, NoFile)
    /\ \A r \in Runs : Trim(r.contentToSend) # << >> \/ r.fileToSend # NoFile

\* The view shows a loaded history, is idle and may still send: blank text
\* alone is refused, the same blank text with a file is accepted.
C11_Witness ==
    /\ ~isTyping
    /\ activeConversationId # NoId
    /\ Len(messages) > 1
    /\ sends - Len(runs) < MaxSends
    /\ ~ENABLED Submit(<<" ">>, NoFile)
    /\ ENABLED Submit(<<" ">>, "pic.png")

\* The five steps of a run.
Steps == {"createConversation", "uploadChatAttachment", "saveUser",
          "sendMessageToWebhook", "saveAssistant"}

\* How often a run attempted a step.
Attempts(r, step) ==
    IF step = "saveUser" THEN Len(Saves(r, "user"))
    ELSE IF step = "saveAssistant" THEN Len(Saves(r, "assistant"))
    ELSE Len(Calls(r, step))

\* Whether an entry of a run's record is a call the run gives up on.
GivesUp(c) ==
    \/ c.op = "createConversation" /\ ~c.created
    \/ c.op = "sendMessageToWebhook" /\ c.throws

\* C12: A run attempts each of its steps at most once, a reply request is
\* one HTTP request at most, and after a step the run gives up on, the run
\* only reports the failure: it makes no further call.
C12_NoRetry ==
    \A r \in Runs :
        /\ \A step \in Steps : Attempts(r, step) <= 1
        /\ \A k \in 1..Len(r.calls) :
              /\ r.calls[k].op = "sendMessageToWebhook" => r.calls[k].requests <= 1
              /\ GivesUp(r.calls[k]) =>
                    \A j \in (k + 1)..Len(r.calls) : r.calls[j].op = "toast"

\* One run ended after a failed reply request, with every step before it
\* attempted once; no run is in flight.
C12_Witness ==
    /\ runs = << >>
    /\ done.n > 0
    /\ done.pc = "failed"
    /\ Attempts(done, "createConversation") = 1
    /\ Attempts(done, "uploadChatAttachment") = 1
    /\ Attempts(done, "saveUser") = 1
    /\ Attempts(done, "sendMessageToWebhook") = 1
    /\ WebhookFailed(done)

\* ------------------------------------------------- validateCPF (utils)
\* cpf.length != 11
CpfLength == 11

DigitChars == <<"0", "1", "2", "3", "4", "5", "6", "7", "8", "9">>

IsDigit(c) == \E i \in 1..Len(DigitChars) : DigitChars[i] = c

\* parseInt(cpf.charAt(i))
ParseInt(c) == (CHOOSE i \in 1..Len(DigitChars) : DigitChars[i] = c) - 1

\* cpf.replace(/[^\d]+/g, '')
OnlyDigits(cpf) == SelectSeq(cpf, IsDigit)

\* The eleven-digit strings validateCPF lists as known invalid.
KnownInvalid == { Rep(DigitChars[i], CpfLength) : i \in 1..Len(DigitChars) }

\* for (i = 0; i < n; i++) add += parseInt(cpf.charAt(i)) * (weight - i)
RECURSIVE WeightedSum(_, _, _)
WeightedSum(cpf, n, weight) ==
    IF n = 0 THEN 0
    ELSE WeightedSum(cpf, n - 1, weight) + ParseInt(cpf[n]) * (weight - (n - 1))

\* rev = 11 - (add % 11); if (rev == 10 || rev == 11) rev = 0
CheckDigit(add) ==
    LET rev == 11 - (add % 11)
    IN  IF rev = 10 \/ rev = 11 THEN 0 ELSE rev

\* Both check digits are the ones the first nine and ten digits call for.
ChecksumOk(cpf) ==
    /\ CheckDigit(WeightedSum(cpf, 9, 10)) = ParseInt(cpf[10])
    /\ CheckDigit(WeightedSum(cpf, 10, 11)) = ParseInt(cpf[11])

\* A validateCPF without its list of known invalid numbers.
validateCPFByChecksum(input) ==
    LET cpf == OnlyDigits(input)
    IN  IF cpf = << >> THEN FALSE
        ELSE IF Len(cpf) # CpfLength THEN FALSE
        ELSE ChecksumOk(cpf)

validateCPF(input) ==
    LET cpf == OnlyDigits(input)
    IN  IF cpf = << >> THEN FALSE
        ELSE IF Len(cpf) # CpfLength \/ cpf \in KnownInvalid THEN FALSE
        ELSE ChecksumOk(cpf)

\* maskCPF of eleven digits: ddd.ddd.ddd-dd
Masked(cpf) ==
    SubSeq(cpf, 1, 3) \o <<".">> \o SubSeq(cpf, 4, 6) \o <<".">>
        \o SubSeq(cpf, 7, 9) \o <<"-">> \o SubSeq(cpf, 10, 11)

\* The documents handed to validateCPF: nine equal digits followed by any
\* two check digits, plain and masked; repetitions of one digit that are
\* shorter or longer than a CPF; two numbers with correct check digits.
CpfPlain ==
    { Rep(DigitChars[i], 9) \o <<DigitChars[j], DigitChars[k]>>
        : i \in 1..10, j \in 1..10, k \in 1..10 }
    \cup { <<"5", "2", "9", "9", "8", "2", "2", "4", "7", "2", "5">>,
           <<"1", "2", "3", "4", "5", "6", "7", "8", "9", "0", "9">> }

CpfInputs ==
    CpfPlain \cup { Masked(c) : c \in CpfPlain }
        \cup { Rep(DigitChars[i], n) : i \in 1..10, n \in 0..(CpfLength + 1) }

\* validateCPF(cpf) is called and answers.
CallValidateCPF(cpf) ==
    /\ last' = [op |-> "validateCPF", cpf |-> cpf, result |-> validateCPF(cpf)]
    /\ UNCHANGED <<messages, inputValue, selectedFile, isTyping, conversations,
                   activeConversationId, runs, done, loads, deletes, fetch, db,
                   savedLog, sends, login, wizard>>

NextCPF == \E cpf \in CpfInputs : CallValidateCPF(cpf)

SpecCPF == Init /\ [][NextCPF]_vars

\* The digits of a document are eleven repetitions of one digit.
Repeated(input) ==
    LET cpf == OnlyDigits(input)
    IN  Len(cpf) = CpfLength /\ \A i \in 1..Len(cpf) : cpf[i] = cpf[1]

\* C13: validateCPF rejects every document whose digits are eleven
\* repetitions of one digit, although both its check digits are correct.
C13_RepeatedDigitsRejected ==
    (last.op = "validateCPF" /\ Repeated(last.cpf)) =>
        /\ ChecksumOk(OnlyDigits(last.cpf))
        /\ ~last.result

\* A masked document of eleven equal digits, with correct check digits,
\* was rejected.
C13_Witness ==
    /\ last.op = "validateCPF"
    /\ last.cpf = Masked(Rep("7", CpfLength))
    /\ ChecksumOk(OnlyDigits(last.cpf))
    /\ ~last.result

\* ------------------------------------------------------ the login view
\* LoginView.onSubmit up to its await: setIsLoading(true), sign-in requested.
onSubmit ==
    /\ login.view = "login"
    /\ login.pc = "idle"
    /\ login' = [login EXCEPT !.isLoading = TRUE, !.pc = "signIn"]
    /\ UNCHANGED <<messages, inputValue, selectedFile, isTyping, conversations,
                   activeConversationId, runs, done, loads, deletes, fetch, db,
                   savedLog, sends, last, wizard>>

\* registerAccessLog up to its first await: the device and the browser are
\* read and the IP lookup is requested.
LogStarted(userAgent) ==
    [pc |-> "ip", device_type |-> DeviceType(userAgent),
     browser |-> BrowserName(userAgent)]

\* signInWithPassword answers: on an error the catch block reports it; else
\* the success toast, registerAccessLog (not awaited) when there is a user,
\* and onLoginSuccess; finally setIsLoading(false).
SignInReturn(answer, userAgent) ==
    /\ login.pc = "signIn"
    /\ login' =
        IF answer = "error"
        THEN [login EXCEPT !.pc = "idle", !.toast = "error",
                           !.isLoading = FALSE]
        ELSE [login EXCEPT !.pc = "idle", !.toast = "success",
                           !.signedIn = @ + 1,
                           !.log = IF answer = "ok" THEN LogStarted(userAgent)
                                   ELSE @,
                           !.entered = @ + 1,
                           !.view = "chat",
                           !.isLoading = FALSE]
    /\ UNCHANGED <<messages, inputValue, selectedFile, isTyping, conversations,
                   activeConversationId, runs, done, loads, deletes, fetch, db,
                   savedLog, sends, last, wizard>>

\* registerAccessLog: the IP lookup answers or fails; the insert is requested.
LogIpReturn(answer) ==
    /\ login.log.pc = "ip"
    /\ login' = [login EXCEPT !.log =
                    [pc |-> "insert", device_type |-> @.device_type,
                     browser |-> @.browser, lookup |-> answer,
                     ip_address |-> IpLookup(answer).ip_address,
                     location |-> IpLookup(answer).location]]
    /\ UNCHANGED <<messages, inputValue, selectedFile, isTyping, conversations,
                   activeConversationId, runs, done, loads, deletes, fetch, db,
                   savedLog, sends, last, wizard>>

\* registerAccessLog: the access_logs insert answers, reports an error or
\* raises; the outer catch block.
LogInsertReturn(answer) ==
    /\ login.log.pc = "insert"
    /\ login' = [login EXCEPT
                    !.log = [pc |-> "done", lookup |-> @.lookup,
                             insert |-> answer],
                    !.rejected = LogCaught(answer = "throws"),
                    !.access_logs =
                        IF answer = "ok"
                        THEN Append(@, [device_type |-> login.log.device_type,
                                        browser |-> login.log.browser,
                                        ip_address |-> login.log.ip_address,
                                        location |-> login.log.location])
                        ELSE @]
    /\ UNCHANGED <<messages, inputValue, selectedFile, isTyping, conversations,
                   activeConversationId, runs, done, loads, deletes, fetch, db,
                   savedLog, sends, last, wizard>>

NextLogin ==
    \/ onSubmit
    \/ \E answer \in {"ok", "nouser", "error"}, userAgent \in UserAgents :
          SignInReturn(answer, userAgent)
    \/ \E answer \in IpAnswers : LogIpReturn(answer)
    \/ \E answer \in InsertAnswers : LogInsertReturn(answer)

SpecLogin == Init /\ [][NextLogin]_vars

\* C14: Whatever the access log does, every successful sign-in has called
\* onLoginSuccess and shown the chat, the loading flag is clear whenever no
\* sign-in is pending, and registerAccessLog's promise is never rejected.
C14_LogNeverAffectsLogin ==
    /\ ~login.rejected
    /\ login.entered = login.signedIn
    /\ login.signedIn > 0 => login.view = "chat"
    /\ login.pc = "idle" => ~login.isLoading
    /\ Len(login.access_logs) <= login.signedIn

\* After a sign-in the access log failed twice, in the IP lookup and in an
\* insert that raised: nothing was logged, the chat is shown, the loading
\* flag is clear.
C14_Witness ==
    /\ login.signedIn = 1
    /\ login.log.pc = "done"
    /\ login.log.lookup = "neterror"
    /\ login.log.insert = "throws"
    /\ login.access_logs = << >>
    /\ login.view = "chat"
    /\ ~login.isLoading

\* The positions in a run's record of the calls of one kind.
At(r, op, role) ==
    { k \in 1..Len(r.calls) :
        /\ r.calls[k].op = op
        /\ op = "saveMessageToDb" => r.calls[k].role = role }

\* C15 as stated: a run issues its reply request only after its user
\* message was written, and writes the assistant message only after the
\* reply request succeeded.
C15_Original ==
    \A r \in Runs :
        /\ \A k \in At(r, "sendMessageToWebhook", "") :
              \E j \in At(r, "saveMessageToDb", "user") :
                  j < k /\ r.calls[j].inserted
        /\ \A k \in At(r, "saveMessageToDb", "assistant") :
              \E j \in At(r, "sendMessageToWebhook", "") :
                  j < k /\ ~r.calls[j].throws

\* C15: A run issues its reply request only after its user-message write
\* has returned, whether or not a row was inserted, and attempts the
\* assistant-message write only after its reply request succeeded.
C15_StepOrder ==
    \A r \in Runs :
        /\ \A k \in At(r, "sendMessageToWebhook", "") :
              \E j \in At(r, "saveMessageToDb", "user") : j < k
        /\ \A k \in At(r, "saveMessageToDb", "assistant") :
              \E j \in At(r, "sendMessageToWebhook", "") :
                  j < k /\ ~r.calls[j].throws

\* A run whose user-message write inserted nothing went on to a reply
\* request that succeeded and to the assistant-message write.
C15_Witness ==
    \E r \in Runs :
        /\ \E j \in At(r, "saveMessageToDb", "user") : ~r.calls[j].inserted
        /\ \E j \in At(r, "sendMessageToWebhook", "") : ~r.calls[j].throws
        /\ At(r, "saveMessageToDb", "assistant") # {}

\* The conversation ids a run handed to its message writes and to its reply
\* request.
IdsUsed(r) ==
    { r.calls[k].conversationId :
        k \in { j \in 1..Len(r.calls) :
                  r.calls[j].op \in {"saveMessageToDb", "sendMessageToWebhook"} } }

\* C16: The message writes and the reply request of a run all use the
\* conversation id the run resolved in step 1, whatever conversation is
\* active by then, and the rows the run wrote carry that id.
C16_SameConversation ==
    \A r \in Runs :
        /\ IdsUsed(r) \subseteq {r.currentId}
        /\ NoId \notin IdsUsed(r)
        /\ \A k \in 1..Len(RowsWritten(r)) :
              RowsWritten(r)[k].conversation_id = r.currentId

\* A run completed with both rows written under its conversation while the
\* view had moved to another or to no conversation.
C16_Witness ==
    /\ done.n > 0
    /\ done.pc = "completed"
    /\ activeConversationId # done.currentId
    /\ Len(RowsWritten(done)) = 2
    /\ IdsUsed(done) = {done.currentId}

\* How many failure toasts a run showed.
Toasts(r) == Len(Calls(r, "toast"))

\* C17: The step in which a run's reply request fails ends the run with one
\* failure toast and a clear busy flag and changes nothing else: the
\* visible list (no assistant message, the optimistic message as it was),
\* the active conversation, the conversation list and the backend stay as
\* they are; the run never attempts the assistant-message write.
C17_ReplyFailureKeepsEffects ==
    [][ (done' # done /\ WebhookFailed(done')) =>
            /\ done'.pc = "failed"
            /\ Toasts(done') = 1
            /\ Saves(done', "assistant") = << >>
            /\ \A k \in 1..Len(messages') : messages'[k].id # ReplyId(done'.n)
            /\ messages' = messages
            /\ activeConversationId' = activeConversationId
            /\ conversations' = conversations
            /\ db' = db
            /\ ~isTyping' ]_vars

\* A run that created its conversation and wrote its user message ended on
\* a failed reply request: the optimistic message is visible, the new
\* conversation is active and listed, the user row is in the table.
C17_Witness ==
    /\ done.n > 0
    /\ done.fresh
    /\ WebhookFailed(done)
    /\ Toasts(done) = 1
    /\ \E k \in 1..Len(messages) : messages[k].id = LocalId(done.n)
    /\ activeConversationId = done.currentId
    /\ \E k \in 1..Len(conversations) : conversations[k].id = done.currentId
    /\ Len(RowsWritten(done)) = 1

\* ------------------------------- every gateway operation called directly
\* The conversation ids handed to the gateway: none, the stored one, those
\* a create may return, and one the table never holds.
ConversationIds ==
    {NoId, 1, UsedDb.serial}
        \cup ((UsedDb.serial + 1)..(UsedDb.serial + MaxSends + 1))

\* await getConversations()
CallGetConversations(out) ==
    /\ last' = [op |-> "getConversations", out |-> out,
                result |-> getConversations(out, db), wrote |-> FALSE]
    /\ UNCHANGED <<messages, inputValue, selectedFile, isTyping, conversations,
                   activeConversationId, runs, done, loads, deletes, fetch, db,
                   savedLog, sends, login, wizard>>

\* await loadChatHistory(conversationId)
CallLoadChatHistory(conversationId, out) ==
    /\ last' = [op |-> "loadChatHistory", conversationId |-> conversationId,
                out |-> out,
                result |-> loadChatHistory(conversationId, out, db),
                wrote |-> FALSE]
    /\ UNCHANGED <<messages, inputValue, selectedFile, isTyping, conversations,
                   activeConversationId, runs, done, loads, deletes, fetch, db,
                   savedLog, sends, login, wizard>>

\* await saveMessageToDb(conversationId, role, content, attachmentInfo)
CallSaveMessageToDb(conversationId, role, content, attachmentInfo, out) ==
    /\ db.serial < UsedDb.serial + MaxSends + 1
    /\ db' = saveMessageToDb(conversationId, role, content, attachmentInfo,
                             out, db)
    /\ savedLog' = IF Len(db'.chat_messages) > Len(db.chat_messages)
                   THEN Append(savedLog, Supplied(conversationId, role, content,
                                                  attachmentInfo))
                   ELSE savedLog
    /\ last' = [op |-> "saveMessageToDb", conversationId |-> conversationId,
                out |-> out, before |-> db, wrote |-> db' # db,
                inserted |-> Len(db'.chat_messages) > Len(db.chat_messages),
                requests |-> SaveRequests(conversationId, out, db),
                raised |-> SaveRaises(out)]
    /\ UNCHANGED <<messages, inputValue, selectedFile, isTyping, conversations,
                   activeConversationId, runs, done, loads, deletes, fetch,
                   sends, login, wizard>>

\* await uploadChatAttachment(file)
CallUploadChatAttachment(file, out) ==
    /\ LET res == uploadChatAttachment(file, out, db)
       IN  /\ db' = res.db
           /\ last' = [op |-> "uploadChatAttachment", file |-> file,
                       out |-> out, result |-> res.result,
                       raised |-> res.throws, stored |-> db.objects,
                       wrote |-> res.db # db]
    /\ UNCHANGED <<messages, inputValue, selectedFile, isTyping, conversations,
                   activeConversationId, runs, done, loads, deletes, fetch,
                   savedLog, sends, login, wizard>>

\* await deleteConversation(conversationId), with or without a session; the
\* function never asks for the session, so the backend answers as it does
\* for any delete.
CallDeleteConversation(conversationId, session, answer) ==
    /\ answer = "ok" => HasConversation(db, conversationId)
    /\ LET res == deleteConversation(conversationId, answer, db)
       IN  /\ db' = res.db
           /\ savedLog' = SelectSeq(savedLog,
                                    LAMBDA m : \E k \in 1..Len(res.db.chat_messages) :
                                                  res.db.chat_messages[k].conversation_id
                                                      = m.conversation_id)
           /\ last' = [op |-> "deleteConversation",
                       conversationId |-> conversationId,
                       out |-> IF session THEN "ok" ELSE "nosession",
                       result |-> res.result, wrote |-> res.db # db]
    /\ UNCHANGED <<messages, inputValue, selectedFile, isTyping, conversations,
                   activeConversationId, runs, done, loads, deletes, fetch,
                   sends, login, wizard>>

NextCalls ==
    \/ \E title \in {<< >>, <<"a">>}, out \in Outcomes :
          CallCreateConversation(title, out)
    \/ \E out \in Outcomes : CallGetConversations(out)
    \/ \E conversationId \in ConversationIds, out \in Outcomes :
          CallLoadChatHistory(conversationId, out)
    \/ \E conversationId \in ConversationIds,
          attachmentInfo \in AttachmentInfos, out \in SaveOutcomes :
            CallSaveMessageToDb(conversationId, "user", <<"a">>, attachmentInfo,
                                out)
    \/ \E file \in Files, out \in UploadOutcomes :
          CallUploadChatAttachment(file, out)
    \/ \E conversationId \in ConversationIds, session \in BOOLEAN,
          answer \in {"ok", "norows", "error"} :
            CallDeleteConversation(conversationId, session, answer)

SpecCalls == Init /\ [][NextCalls]_vars

\* The result an operation gives when it has nothing to give.
EmptyResult(op) ==
    IF op = "createConversation" THEN << >>
    ELSE IF op \in {"getConversations", "loadChatHistory"} THEN << >>
    ELSE IF op = "uploadChatAttachment" THEN None
    ELSE FALSE

\* C18 as stated: every gateway operation called without a session writes
\* nothing to the backend and returns its empty or failure result; for
\* deleteConversation that is false.
C18_Original ==
    last.op # "none" /\ last.out = "nosession" =>
        /\ ~last.wrote
        /\ last.op # "saveMessageToDb" => last.result = EmptyResult(last.op)

\* The conversation the table lists first: the one with the latest
\* updated_at.
MostRecent(d) == IF d.conversations = << >> THEN NoId ELSE d.conversations[1].id

C20_UploadNeverRaises ==
    last.op = "uploadChatAttachment" =>
        /\ ~last.raised
        /\ last.out # "ok" =>
              /\ last.result = None
              /\ db.objects = last.stored
        /\ last.out = "ok" =>
              /\ last.result = PublicUrl(last.file)
              /\ last.file \in db.objects

\* An upload without a session answered null and stored nothing, after an
\* earlier call had created a conversation.
C20_Witness ==
    /\ last.op = "uploadChatAttachment"
    /\ last.out = "nosession"
    /\ last.result = None
    /\ ~last.raised
    /\ db.objects = {}
    /\ Len(db.conversations) > Len(UsedDb.conversations)

\* ------------------------------------- the reply gateway called directly
\* await sendMessageToWebhook(message, conversationId, file)
CallSendMessageToWebhook(message, conversationId, file, readable, answer) ==
    /\ LET w == sendMessageToWebhook(message, conversationId, file, readable,
                                     answer)
       IN  last' = [op |-> "sendMessageToWebhook", message |-> message,
                    conversationId |-> conversationId, file |-> file,
                    readable |-> readable, answer |-> answer,
                    throws |-> w.throws, requests |-> w.requests,
                    text |-> w.text]
    /\ UNCHANGED <<messages, inputValue, selectedFile, isTyping, conversations,
                   activeConversationId, runs, done, loads, deletes, fetch, db,
                   savedLog, sends, login, wizard>>

NextReply ==
    \E message \in Texts, conversationId \in {1, UsedDb.serial + 1},
       file \in Files \cup {NoFile}, readable \in BOOLEAN,
       answer \in AllAnswers :
        CallSendMessageToWebhook(message, conversationId, file, readable, answer)

SpecReply == Init /\ [][NextReply]_vars

\* The last call of sendMessageToWebhook returned a text.
Replied == last.op = "sendMessageToWebhook" /\ ~last.throws

\* C21 as stated: the returned text is the reply field if the body has one,
\* else the output field if it has one, else the body if it is a string,
\* else the sentinel.
C21_Original ==
    Replied =>
        LET data == last.answer.data
        IN  /\ "reply" \in DOMAIN data => last.text = data.reply
            /\ ("reply" \notin DOMAIN data /\ "output" \in DOMAIN data) =>
                    last.text = data.output
            /\ ("reply" \notin DOMAIN data /\ "output" \notin DOMAIN data) =>
                    last.text = IF data.kind = "string" THEN data.value
                                ELSE NoTextSentinel

\* C21: The returned text is the reply field if the body has a non-empty
\* one, else the output field if it has a non-empty one, else the body
\* itself if it is a string, else the sentinel; a non-empty reply field
\* wins over any output field.
C21_FallbackChain ==
    Replied =>
        LET data == last.answer.data
            reply == Truthy(data, "reply")
            output == Truthy(data, "output")
        IN  /\ reply => last.text = data.reply
            /\ (~reply /\ output) => last.text = data.output
            /\ (~reply /\ ~output /\ data.kind = "string") =>
                    last.text = data.value
            /\ (~reply /\ ~output /\ data.kind # "string") =>
                    last.text = NoTextSentinel

\* A body with a reply field and an output field was decoded to its reply.
C21_Witness ==
    /\ Replied
    /\ Truthy(last.answer.data, "reply")
    /\ Truthy(last.answer.data, "output")
    /\ last.answer.data.reply # last.answer.data.output
    /\ last.text = last.answer.data.reply

\* The last call of sendMessageToWebhook met a failure: the file could not
\* be encoded, the request failed, the status was no success, or the body
\* could not be parsed or read.
Failure ==
    /\ last.op = "sendMessageToWebhook"
    /\ \/ last.file # NoFile /\ ~last.readable
       \/ last.answer.net # "ok"
       \/ last.answer.data.kind = "null"

\* C22 as stated: every call sends exactly one request, and every failure
\* ends the call with an exception.
C22_Original ==
    last.op = "sendMessageToWebhook" =>
        /\ last.requests = 1
        /\ Failure => last.throws

\* C22: Every call sends at most one request, and exactly one unless the
\* file could not be encoded, in which case none is sent; every failure
\* ends the call with an exception and without a text, and a call without
\* a failure returns a text.
C22_OneRequestRethrow ==
    last.op = "sendMessageToWebhook" =>
        /\ last.requests <= 1
        /\ last.requests = 0 <=> (last.file # NoFile /\ ~last.readable)
        /\ Failure => (last.throws /\ last.text = << >>)
        /\ ~Failure => ~last.throws

\* A request was answered with a non-success status and the call raised.
C22_Witness ==
    /\ last.op = "sendMessageToWebhook"
    /\ last.answer.net = "status500"
    /\ last.requests = 1
    /\ last.throws

\* ------------------------------------------- the draft and the pipeline
\* The user edits the draft and submits it as it stands.
Draft ==
    \/ \E t \in Texts : TypeText(t)
    \/ \E f \in Files : handleFileSelect(f)
    \/ ClearFile
    \/ Send

NextDraft == Draft \/ Pipeline \/ Effects

SpecDraft == Init /\ [][NextDraft]_vars

\* The run that a step of handleSendMessage up to its first await starts.
Started == IF Len(runs') > Len(runs) THEN runs'[Len(runs')] ELSE done'

\* C23: A send first appends the user message to the visible list and
\* clears the text field and the file selection, all before the first
\* network call of the run; the steps that follow use the text and the
\* file captured before the clearing, whatever the draft holds by then.
C23_OptimisticFirst ==
    /\ [][sends' # sends =>
            /\ messages' = Append(messages,
                                  OptimisticMessage(sends', inputValue,
                                                    selectedFile))
            /\ inputValue' = << >>
            /\ selectedFile' = NoFile
            /\ db' = db
            /\ Started.contentToSend = inputValue
            /\ Started.fileToSend = selectedFile
            /\ NetCalls(Started) = << >>]_vars
    /\ [](\A r \in Runs :
            /\ r.calls[1].op = "optimistic"
            /\ \A k \in 1..Len(r.calls) :
                  /\ r.calls[k].op = "createConversation" =>
                        r.calls[k].title = r.contentToSend
                  /\ r.calls[k].op = "sendMessageToWebhook" =>
                        /\ r.calls[k].message = r.contentToSend
                        /\ r.calls[k].file = r.fileToSend
                  /\ (r.calls[k].op = "saveMessageToDb"
                        /\ r.calls[k].role = "user") =>
                        r.calls[k].attachmentInfo =
                            DbAttachmentInfo(r.fileToSend,
                                             r.publicAttachmentUrl)
            /\ \A j \in 1..Len(RowsWritten(r)) :
                  RowsWritten(r)[j].role = "user" =>
                      RowsWritten(r)[j].content = r.contentToSend)

\* A run wrote its user message with the captured text and asked for the
\* reply with it after the user had typed a new draft into the cleared
\* field.
C23_Witness ==
    /\ done.n > 0
    /\ inputValue # << >>
    /\ inputValue # done.contentToSend
    /\ done.fileToSend # NoFile
    /\ selectedFile = NoFile
    /\ Len(Calls(done, "sendMessageToWebhook")) = 1
    /\ \E j \in 1..Len(RowsWritten(done)) :
          /\ RowsWritten(done)[j].role = "user"
          /\ RowsWritten(done)[j].content = done.contentToSend

\* The run i after a step: still in flight, or the run that just ended.
After(i) == IF Len(runs') = Len(runs) THEN runs'[i] ELSE done'

\* The ids of the conversations a sidebar list holds.
ListIds(list) == {list[k].id : k \in 1..Len(list)}

\* C24: When a send creates a new conversation, that conversation becomes
\* the active one and is put once at the head of the local list; a send
\* started with an active conversation creates none, and no other step of
\* a send changes the list or the active conversation id.
C24_AdoptOnce ==
    /\ [][/\ sends' # sends => UNCHANGED <<conversations, activeConversationId>>
          /\ \A i \in 1..Len(runs) :
                LET r == runs[i]
                    a == After(i)
                IN  a.calls # r.calls =>
                      IF /\ r.pc = "createConversation"
                         /\ a.calls[Len(r.calls) + 1].created
                      THEN /\ r.fresh
                           /\ a.currentId # NoId
                           /\ a.currentId \notin ListIds(conversations)
                           /\ activeConversationId' = a.currentId
                           /\ Len(conversations') = Len(conversations) + 1
                           /\ conversations'[1].id = a.currentId
                           /\ Tail(conversations') = conversations
                      ELSE UNCHANGED <<conversations, activeConversationId>>]_vars
    /\ [](\A r \in Runs :
            /\ Len(Calls(r, "createConversation")) <= 1
            /\ ~r.fresh => Len(Calls(r, "createConversation")) = 0)

\* A send that started with no active conversation has created one, which
\* is the active one and the head of the list, while the send goes on.
C24_Witness ==
    /\ Len(runs) = 1
    /\ runs[1].fresh
    /\ runs[1].pc = "saveUser"
    /\ Len(conversations) = 2
    /\ conversations[1].id = runs[1].currentId
    /\ conversations[2].id # runs[1].currentId
    /\ activeConversationId = runs[1].currentId

\* ------------------------------------ one send and nothing else going wrong
\* The user does nothing but submit, and every history load is answered with
\* the rows of the conversation.
NextSolo ==
    \/ \E t \in Texts, f \in Files \cup {NoFile} : Submit(t, f)
    \/ Pipeline
    \/ \E out \in Outcomes : FetchReturn(out)
    \/ \E j \in 1..(MaxPending + MaxSends) : LoadRead(j, "ok")
    \/ \E j \in 1..(MaxPending + MaxSends) : LoadReturn(j)

SpecSolo == Init /\ [][NextSolo]_vars

\* How many messages of the visible list have this role and this content.
Occurrences(role, content) ==
    Len(SelectSeq(messages, LAMBDA m : m.role = role /\ m.content = content))

\* A send that started with no active conversation has ended with every
\* step of it succeeded, and no history load is in flight any more.
SettledFresh ==
    /\ done.n > 0
    /\ done.fresh
    /\ done.pc = "completed"
    /\ ~UploadFailed(done)
    /\ Len(Inserted(Saves(done, "user"))) = 1
    /\ Len(Inserted(Saves(done, "assistant"))) = 1
    /\ activeConversationId = done.currentId
    /\ loads = << >>

\* C25 as stated: once a fully successful send that created its
\* conversation and the history load of that conversation have finished,
\* the visible list holds the user message once and the reply once.
C25_Original ==
    SettledFresh =>
        /\ Occurrences("user", done.contentToSend) = 1
        /\ Occurrences("assistant", done.responseText) = 1

\* The step appends the reply of run i to the visible list.
ReplyAppended(i) ==
    /\ runs[i].pc = "sendMessageToWebhook"
    /\ Len(messages') = Len(messages) + 1
    /\ messages'[Len(messages')].id = ReplyId(runs[i].n)

\* C26 as stated: the reply of a send is appended to the visible list only
\* while the conversation the send works for is the active one.
C26_Original ==
    [][\A i \in 1..Len(runs) :
          ReplyAppended(i) => activeConversationId = runs[i].currentId]_vars

\* C27 as stated: the active conversation id is none or the id of a
\* conversation of the locally held list.
C27_Original ==
    activeConversationId = NoId \/ activeConversationId \in ListIds(conversations)

\* The calls of a run that carry the id of its conversation.
Targeting == {"saveUser", "sendMessageToWebhook", "saveAssistant"}

\* The step makes run i issue a call that carries its conversation id.
Issues(i) ==
    /\ i \in 1..Len(runs')
    /\ runs'[i].pc \in Targeting
    /\ i \in 1..Len(runs) => runs[i].pc # runs'[i].pc

\* C28 as stated: a run issues a message write or a reply request only for
\* a conversation that has not been deleted.
C28_Original ==
    [][\A i \in 1..MaxSends :
          Issues(i) => HasConversation(db', runs'[i].currentId)]_vars

\* ------------------------------------------------ the registration wizard
\* A CPF with correct check digits as maskCPF shows it, a repeated digit,
\* and the empty field.
WizardCpfs ==
    { << >>, Rep("1", CpfLength),
      Masked(<<"5", "2", "9", "9", "8", "2", "2", "4", "7", "2", "5">>) }

\* cpf: z.string().min(11, ...).refine(validateCPF, ...), with the other
\* fields of step1Schema.
Step1Valid(form) ==
    form.personal /\ Len(form.cpf) >= CpfLength /\ validateCPF(form.cpf)

\* fullSchema = step1Schema.merge(step2Schema)
FullValid(form) == Step1Valid(form) /\ form.address

\* The user fills the fields of step 1, shown while step === 1.
EditPersonal(cpf, ok) ==
    /\ wizard.view = "onboarding"
    /\ wizard.step = 1
    /\ wizard' = [wizard EXCEPT !.form.cpf = cpf, !.form.personal = ok]
    /\ wizard' # wizard
    /\ UNCHANGED <<messages, inputValue, selectedFile, isTyping, conversations,
                   activeConversationId, runs, done, loads, deletes, fetch, db,
                   savedLog, sends, last, login>>

\* The user fills the fields of step 2, shown while step === 2.
EditAddress(ok) ==
    /\ wizard.view = "onboarding"
    /\ wizard.step = 2
    /\ wizard' = [wizard EXCEPT !.form.address = ok]
    /\ wizard' # wizard
    /\ UNCHANGED <<messages, inputValue, selectedFile, isTyping, conversations,
                   activeConversationId, runs, done, loads, deletes, fetch, db,
                   savedLog, sends, last, login>>

\* handleNext up to its await: the button is shown while step < 2, and
\* trigger validates the fields of step 1 as they are.
handleNext ==
    /\ wizard.view = "onboarding"
    /\ wizard.step < 2
    /\ Len(wizard.pending) < MaxValidations
    /\ wizard' = [wizard EXCEPT !.pending = Append(@, Step1Valid(wizard.form))]
    /\ UNCHANGED <<messages, inputValue, selectedFile, isTyping, conversations,
                   activeConversationId, runs, done, loads, deletes, fetch, db,
                   savedLog, sends, last, login>>

\* handleNext after its await: if (isStepValid) setStep(prev => prev + 1)
NextReturn(k) ==
    /\ wizard.view = "onboarding"
    /\ k \in 1..Len(wizard.pending)
    /\ wizard' = [wizard EXCEPT
                    !.pending = RemoveAt(@, k),
                    !.step = IF wizard.pending[k] THEN @ + 1 ELSE @]
    /\ UNCHANGED <<messages, inputValue, selectedFile, isTyping, conversations,
                   activeConversationId, runs, done, loads, deletes, fetch, db,
                   savedLog, sends, last, login>>

\* handleBack: the button is shown while step > 1 and disabled while
\* submitting; setStep(prev => prev - 1)
handleBack ==
    /\ wizard.view = "onboarding"
    /\ wizard.step > 1
    /\ ~wizard.isSubmitting
    /\ wizard' = [wizard EXCEPT !.step = @ - 1]
    /\ UNCHANGED <<messages, inputValue, selectedFile, isTyping, conversations,
                   activeConversationId, runs, done, loads, deletes, fetch, db,
                   savedLog, sends, last, login>>

\* The submit button is shown unless step < 2 and disabled while submitting.
SubmitShown(w) == ~(w.step < 2) /\ ~w.isSubmitting

\* The submit of the form: handleSubmit calls onSubmit(data) when the whole
\* form satisfies fullSchema; onSubmit sets the submitting flag and calls
\* check_duplicate_documents with the digits of the CPF.
WizardSubmit ==
    /\ wizard.view = "onboarding"
    /\ SubmitShown(wizard)
    /\ FullValid(wizard.form)
    /\ wizard' = [wizard EXCEPT
                    !.isSubmitting = TRUE, !.pc = "rpc", !.toast = "none",
                    !.data = wizard.form,
                    !.calls = << [op |-> "rpc", at |-> wizard.step,
                                  cpf_input |-> OnlyDigits(wizard.form.cpf),
                                  out |-> "sent"] >>]
    /\ UNCHANGED <<messages, inputValue, selectedFile, isTyping, conversations,
                   activeConversationId, runs, done, loads, deletes, fetch, db,
                   savedLog, sends, last, login>>

\* The call in flight has answered with out.
Answered(w, out) ==
    [w EXCEPT !.calls = [@ EXCEPT ![Len(@)] = [@ EXCEPT !.out = out]]]

\* A further call is made.
Invoked(w, op) ==
    [w EXCEPT !.pc = op, !.calls = Append(@, [op |-> op, out |-> "sent"])]

\* The run leaves onSubmit: finally { setIsSubmitting(false) }, after the
\* toast of the catch block or of the early return.
Left(w, toast) ==
    [w EXCEPT !.pc = "idle", !.isSubmitting = FALSE, !.toast = toast]

\* A check whose answer is not looked at.
AfterCheckIgnored(out) == "signUp"

\* if (rpcError) throw ...; if (cpfExists) { toast; setIsSubmitting(false);
\* return }
AfterCheck(out) ==
    IF out = "error" THEN "error"
    ELSE IF out = "exists" THEN "duplicate"
    ELSE "signUp"

CheckReturn(out) ==
    /\ wizard.view = "onboarding"
    /\ wizard.pc = "rpc"
    /\ wizard' = IF AfterCheck(out) = "signUp"
                 THEN Invoked(Answered(wizard, out), "signUp")
                 ELSE Left(Answered(wizard, out), AfterCheck(out))
    /\ UNCHANGED <<messages, inputValue, selectedFile, isTyping, conversations,
                   activeConversationId, runs, done, loads, deletes, fetch, db,
                   savedLog, sends, last, login>>

\* if (authError) throw ...; if (!authData.user || !authData.user.id) throw ...
AfterSignUp(out) == IF out = "user" THEN "insert" ELSE "error"

SignUpReturn(out) ==
    /\ wizard.view = "onboarding"
    /\ wizard.pc = "signUp"
    /\ wizard' = IF AfterSignUp(out) = "insert"
                 THEN Invoked(Answered(wizard, out), "insert")
                 ELSE Left(Answered(wizard, out), "error")
    /\ UNCHANGED <<messages, inputValue, selectedFile, isTyping, conversations,
                   activeConversationId, runs, done, loads, deletes, fetch, db,
                   savedLog, sends, last, login>>

\* if (profileError) throw ...; toast(success); onSuccess(), which makes the
\* application show the success view.
InsertReturn(out) ==
    /\ wizard.view = "onboarding"
    /\ wizard.pc = "insert"
    /\ wizard' = IF out = "ok"
                 THEN [Left(Answered(wizard, out), "success")
                         EXCEPT !.view = "success"]
                 ELSE Left(Answered(wizard, out), "error")
    /\ UNCHANGED <<messages, inputValue, selectedFile, isTyping, conversations,
                   activeConversationId, runs, done, loads, deletes, fetch, db,
                   savedLog, sends, last, login>>

NextWizard ==
    \/ \E cpf \in WizardCpfs, ok \in BOOLEAN : EditPersonal(cpf, ok)
    \/ \E ok \in BOOLEAN : EditAddress(ok)
    \/ handleNext
    \/ \E k \in 1..MaxValidations : NextReturn(k)
    \/ handleBack
    \/ WizardSubmit
    \/ \E out \in {"error", "exists", "free"} : CheckReturn(out)
    \/ \E out \in {"registered", "error", "nouser", "user"} : SignUpReturn(out)
    \/ \E out \in {"ok", "error"} : InsertReturn(out)

SpecWizard == Init /\ [][NextWizard]_vars

\* C29: signUp is invoked only after the duplicate check answered without
\* error that the CPF is not registered, the profile insert only after
\* signUp returned a user id, onSuccess only after the profile insert
\* succeeded, each call at most once per submit and in this order; when the
\* submit has left onSubmit by whatever path, the submitting flag is clear.
C29_GatedSubmit ==
    /\ Len(wizard.calls) <= 3
    /\ \A k \in 1..Len(wizard.calls) :
          /\ wizard.calls[k].op = <<"rpc", "signUp", "insert">>[k]
          /\ k < Len(wizard.calls) =>
                wizard.calls[k].out = <<"free", "user">>[k]
    /\ wizard.calls # << >> =>
          wizard.calls[1].cpf_input = OnlyDigits(wizard.data.cpf)
    /\ wizard.view = "success" =>
          /\ Len(wizard.calls) = 3
          /\ wizard.calls[3].out = "ok"
    /\ wizard.pc = "idle" <=> ~wizard.isSubmitting
    /\ wizard.pc # "idle" =>
          /\ wizard.calls # << >>
          /\ wizard.calls[Len(wizard.calls)].op = wizard.pc
          /\ wizard.calls[Len(wizard.calls)].out = "sent"
    /\ (wizard.pc = "idle" /\ wizard.calls # << >>) =>
          wizard.calls[Len(wizard.calls)].out # "sent"

\* A submit was stopped by the duplicate check: no signUp, the flag clear.
C29_Witness ==
    /\ wizard.pc = "idle"
    /\ wizard.toast = "duplicate"
    /\ Len(wizard.calls) = 1
    /\ wizard.calls[1].out = "exists"
    /\ ~wizard.isSubmitting
    /\ wizard.view = "onboarding"

\* C30 as stated: the step counter is 1 or 2, and a submit is made at
\* step 2 only.
C30_Original ==
    /\ wizard.step \in {1, 2}
    /\ \A k \in 1..Len(wizard.calls) :
          wizard.calls[k].op = "rpc" => wizard.calls[k].at = 2

=============================================================================
